---------------------------- MODULE Spec2Model ----------------------------
(***************************************************************************)
(* A model of CRS Invaders: src/src/Main.js (Player, Pulse, Clot, PowerUp, *)
(* Game) and the Physics part of src/unnamed/part_000 (CRSCalculator,      *)
(* circleCollision, lerp).                                                 *)
(*                                                                         *)
(* Numbers.  The program computes in floating point; the model computes in *)
(* fixed point, with the inputs drawn from values for which every step is  *)
(* exact:                                                                  *)
(*   - times are integer milliseconds;                                     *)
(*   - positions and speeds are in 1/PosUnit pixel;                        *)
(*   - radii are whole pixels;                                             *)
(*   - a scale (radius / baseRadius) is in 1/ScaleOne, exact for the base  *)
(*     radii of BaseRadii;                                                 *)
(*   - the CRS value is in 1/CrsOne of a CRS point, exact for elapsed      *)
(*     times that are multiples of 4 ms.                                   *)
(* Math.random() is a nondeterministic choice from a small set of values   *)
(* of the range the program draws from.                                    *)
(***************************************************************************)
EXTENDS Integers, Sequences, FiniteSets, TLC

\* ------------------------------------------------------------------ units
PosUnit  == 10 * 10          \* position units per pixel
ScaleOne == 3 * 50           \* the scale 1.0
CrsOne   == ScaleOne * ScaleOne * 125   \* one CRS point

Min(a, b) == IF a < b THEN a ELSE b
Max(a, b) == IF a > b THEN a ELSE b
Abs(a)    == IF a < 0 THEN -a ELSE a

\* F of the value of v, with v evaluated once.
Bind(v, F(_)) == CHOOSE r \in { F(x) : x \in {v} } : TRUE

\* ------------------------------------------------------- program constants
maxCRS           == 100     \* CRSCalculator.maxCRS
recoveryRate     == 5       \* CRSCalculator.recoveryRate
CriticalCRS      == 70      \* CRSCalculator.isCritical
minRadius        == 10      \* Clot.minRadius
PulseRadius      == 8       \* Pulse.radius
PulseSpeed       == 12      \* Pulse.speed
PowerUpRadius    == 18      \* PowerUp.radius
PickupMargin     == 30      \* Game.update, power-up collection
PowerUpBound     == 1000    \* PowerUp.update
PlayerWidth      == 50      \* Player.width
PlayerHeight     == 30      \* Player.height
PlayerBottom     == 80      \* Player.y = canvas.height - 80
ClotStartY       == -80     \* Game.spawnClot
MaxPulses        == 20      \* Game.fire
ComboWindow      == 1500    \* Game.checkCollisions
MaxComboBonus    == 10      \* Game.checkCollisions
HitScore         == 5       \* Game.checkCollisions
DestroyScore     == 50      \* Game.checkCollisions
PowerUpScore     == 100     \* Game.applyPowerUp
HealAmount       == 25      \* Game.applyPowerUp
DifficultyPeriod == 5000    \* Game.update
baseSpawnRate    == 2500    \* Game.update
MaxDelta         == 32      \* Game.gameLoop
EscapeBase       == 25      \* Game.update, escape penalty
EscapeFactor     == 15      \* Game.update, escape penalty
LevelCount       == 3       \* LEVELS.length

\* GAME_STATES
MENU           == "menu"
PLAYING        == "playing"
PAUSED         == "paused"
LEVEL_COMPLETE == "level_complete"
GAME_OVER      == "game_over"
SCIENCE_MODAL  == "science_modal"
GAME_STATES    == {MENU, PLAYING, PAUSED, LEVEL_COMPLETE, GAME_OVER, SCIENCE_MODAL}

\* POWERUP_TYPES: the duration of each kind
POWERUP_KEYS == {"RAPID_FIRE", "HEAL", "MULTI_SHOT", "SHIELD"}
Duration(typeKey) ==
    CASE typeKey = "RAPID_FIRE" -> 5000
      [] typeKey = "HEAL"       -> 0
      [] typeKey = "MULTI_SHOT" -> 6000
      [] typeKey = "SHIELD"     -> 4000

VARIABLES
    state, level, score, spawnTimer, wasCritical,
    difficultyTimer, difficultyLevel, difficultyMultiplier,
    combo, comboTimer, maxCombo, activePowerUps, autoFireTimer,
    crsValue, canvas, player, pulses, clots, powerUps,
    sinceHit,   \* history: the frame time since the frame of the last hit
    ev          \* history: what the last operation did

vars == << state, level, score, spawnTimer, wasCritical,
           difficultyTimer, difficultyLevel, difficultyMultiplier,
           combo, comboTimer, maxCombo, activePowerUps, autoFireTimer,
           crsValue, canvas, player, pulses, clots, powerUps, sinceHit, ev >>

\* Everything of the Game object except the CRS value, the clots and ev.
restOfGame == << state, level, score, spawnTimer, wasCritical,
                 difficultyTimer, difficultyLevel, difficultyMultiplier,
                 combo, comboTimer, maxCombo, activePowerUps, autoFireTimer,
                 canvas, player, pulses, powerUps, sinceHit >>

\* ------------------------------------------------------------------- Clot
\* Clot.getScale: radius / baseRadius, in 1/ScaleOne.
getScale(clot) == (clot.radius * ScaleOne) \div clot.baseRadius

\* Clot.hit: the clot after the hit.
hitSwapped(clot) == [clot EXCEPT !.radius = clot.radius + clot.shrinkAmount]
hit(clot) == [clot EXCEPT !.radius = clot.radius - clot.shrinkAmount]

\* Clot.hit: its return value, for the clot as the hit left it.
hitReturnStrict(clot) == clot.radius < clot.minRadius
hitReturn(clot) == clot.radius <= clot.minRadius

\* ---------------------------------------------------------- CRSCalculator
\* The scale CRSCalculator.update reads of an entity: getScale() when the
\* entity has one, radius / 50 otherwise.
scaleOf(clot) ==
    IF clot.hasGetScale THEN getScale(clot)
    ELSE (clot.radius * ScaleOne) \div 50

\* mass * (deltaTime / 1000) * 2 of one clot, in 1/CrsOne:
\* (s/ScaleOne)^2 * dt/500 * CrsOne = s*s*dt/4.
residenceContribution(clot, deltaTime) ==
    (scaleOf(clot) * scaleOf(clot) * deltaTime) \div 4

RECURSIVE crsIncrease(_, _)
crsIncrease(cs, deltaTime) ==
    IF cs = << >> THEN 0
    ELSE residenceContribution(Head(cs), deltaTime) + crsIncrease(Tail(cs), deltaTime)

\* CRSCalculator.update
crsUpdateNoClamp(crs, cs, deltaTime) == crs + crsIncrease(cs, deltaTime)
crsUpdate(crs, cs, deltaTime) ==
    Min(maxCRS * CrsOne, crs + crsIncrease(cs, deltaTime))

\* CRSCalculator.onClotDestroyed; 5 * (s/ScaleOne) * CrsOne = s * reduction unit
onClotDestroyed(crs, clotScale) ==
    Max(0, crs - recoveryRate * clotScale * (CrsOne \div ScaleOne))

isCritical(crs) == crs >= CriticalCRS * CrsOne
isFailedStrict(crs) == crs > maxCRS * CrsOne
isFailed(crs)   == crs >= maxCRS * CrsOne


\* ------------------------------------------------------------- collisions
\* circleCollision: sqrt(dx*dx + dy*dy) < r1 + r2, positions in 1/PosUnit
\* pixel and radii in pixels.  A distance is never below zero, and it is at
\* least |dx| and |dy|: those tests come first and keep the squares small.
circleCollision(x1, y1, r1, x2, y2, r2) ==
    LET dx == x2 - x1
        dy == y2 - y1
        r  == (r1 + r2) * PosUnit
    IN  /\ r > 0
        /\ Abs(dx) < r
        /\ Abs(dy) < r
        /\ dx * dx + dy * dy < r * r

\* lerp(start, end, factor) with factor = 0.12, in fixed point
lerp12(start, end) == start + ((end - start) * 12) \div 100

\* ---------------------------------------------------------------- events
\* What the last operation did, for the properties that speak of one
\* operation: the frame's elapsed time, the hits of its collision scan in
\* scan order, the scales of the clots that escaped, the CRS value after the
\* scan, after the escape penalties and at the critical and failed checks,
\* the screen shakes it triggered, the power-ups it collected and the number
\* of those that fell out of bounds; arg is the
\* operation's input (the pointer's place, the gap between two timestamps).  A hit records the indices of its pulse and its
\* clot, the clot's constants and its place, the radius and the scale the hit
\* left, and the combo, the score and the CRS value before and after it.
NoEv == [ op |-> "init", dt |-> 0, levelUp |-> FALSE, fired |-> 0, spawned |-> 0,
          hits |-> << >>, escapes |-> << >>,
          scoreAfterScan |-> 0, crsAfterScan |-> 0, crsAfterEscapes |-> 0,
          crsAtCheck |-> 0,
          shakes |-> << >>, critical |-> FALSE, gameOver |-> FALSE, shownScore |-> 0,
          collected |-> << >>, culled |-> 0, arg |-> 0, ret |-> FALSE ]

\* ----------------------------------------------------------- constructors
\* new Player(canvas)
NewPlayer(cv) ==
    [ x |-> (cv.width * PosUnit) \div 2,
      y |-> (cv.height - PlayerBottom) * PosUnit,
      targetX |-> (cv.width * PosUnit) \div 2 ]

\* new Pulse(x, y)
NewPulse(x, y) == [ x |-> x, y |-> y ]

\* new Clot(x, y, difficultyMultiplier); d holds the Math.random() draws:
\* baseRadius in [45, 80), shrinkAmount in [5, 8), the base speed in
\* [0.4, 0.8) pixel, vx in [-0.25, 0.25) pixel, dropsPowerUp.  The multiplier
\* m10 is in tenths: speed = base * (1 + (m - 1) * 0.7).
NewClot(x, y, m10, d) ==
    [ x |-> x, y |-> y,
      baseRadius |-> d.baseRadius, radius |-> d.baseRadius,
      minRadius |-> minRadius, shrinkAmount |-> d.shrinkAmount,
      speed |-> (d.speed * (100 + 7 * (m10 - 10))) \div 100,
      vx |-> d.vx, dropsPowerUp |-> d.dropsPowerUp, hasGetScale |-> TRUE ]

\* new PowerUp(x, y) of the drawn kind
NewPowerUp(x, y, typeKey) == [ x |-> x, y |-> y, typeKey |-> typeKey ]

\* The Game object as a record of its fields (and the events so far).
Game ==
    [ state |-> state, level |-> level, score |-> score,
      spawnTimer |-> spawnTimer, wasCritical |-> wasCritical,
      difficultyTimer |-> difficultyTimer, difficultyLevel |-> difficultyLevel,
      difficultyMultiplier |-> difficultyMultiplier,
      combo |-> combo, comboTimer |-> comboTimer, maxCombo |-> maxCombo,
      activePowerUps |-> activePowerUps, autoFireTimer |-> autoFireTimer,
      crsValue |-> crsValue, canvas |-> canvas, player |-> player,
      pulses |-> pulses, clots |-> clots, powerUps |-> powerUps,
      sinceHit |-> sinceHit, ev |-> ev ]

\* The next state is the Game object g.
Becomes(game) ==
    \E g \in {game} :
    /\ state' = g.state
    /\ level' = g.level
    /\ score' = g.score
    /\ spawnTimer' = g.spawnTimer
    /\ wasCritical' = g.wasCritical
    /\ difficultyTimer' = g.difficultyTimer
    /\ difficultyLevel' = g.difficultyLevel
    /\ difficultyMultiplier' = g.difficultyMultiplier
    /\ combo' = g.combo
    /\ comboTimer' = g.comboTimer
    /\ maxCombo' = g.maxCombo
    /\ activePowerUps' = g.activePowerUps
    /\ autoFireTimer' = g.autoFireTimer
    /\ crsValue' = g.crsValue
    /\ canvas' = g.canvas
    /\ player' = g.player
    /\ pulses' = g.pulses
    /\ clots' = g.clots
    /\ powerUps' = g.powerUps
    /\ sinceHit' = g.sinceHit
    /\ ev' = g.ev

\* The state is the Game object g.
Is(game) ==
    \E g \in {game} :
    /\ state = g.state
    /\ level = g.level
    /\ score = g.score
    /\ spawnTimer = g.spawnTimer
    /\ wasCritical = g.wasCritical
    /\ difficultyTimer = g.difficultyTimer
    /\ difficultyLevel = g.difficultyLevel
    /\ difficultyMultiplier = g.difficultyMultiplier
    /\ combo = g.combo
    /\ comboTimer = g.comboTimer
    /\ maxCombo = g.maxCombo
    /\ activePowerUps = g.activePowerUps
    /\ autoFireTimer = g.autoFireTimer
    /\ crsValue = g.crsValue
    /\ canvas = g.canvas
    /\ player = g.player
    /\ pulses = g.pulses
    /\ clots = g.clots
    /\ powerUps = g.powerUps
    /\ sinceHit = g.sinceHit
    /\ ev = g.ev

\* new Game(): resize(), then the fields of the constructor.
NewGame(cv) ==
    [ state |-> MENU, level |-> 0, score |-> 0,
      spawnTimer |-> 0, wasCritical |-> FALSE,
      difficultyTimer |-> 0, difficultyLevel |-> 0, difficultyMultiplier |-> 10,
      combo |-> 0, comboTimer |-> 0, maxCombo |-> 0,
      activePowerUps |-> [ rapidFire |-> 0, multiShot |-> 0, shield |-> 0 ],
      autoFireTimer |-> 0,
      crsValue |-> 0, canvas |-> cv, player |-> NewPlayer(cv),
      pulses |-> << >>, clots |-> << >>, powerUps |-> << >>,
      sinceHit |-> -1, ev |-> NoEv ]

\* ScreenShake.trigger(intensity), as an event
Shake(g, intensity) == [g EXCEPT !.ev.shakes = Append(@, intensity)]

\* ------------------------------------------------------------ Game.fire
\* The pulses of one shot: one, or three abreast under multi-shot.
firePulsesUncapped(g) ==
    LET px == g.player.x
        py == g.player.y - (PlayerHeight * PosUnit) \div 2
    IN  IF g.activePowerUps.multiShot > 0
        THEN [g EXCEPT !.pulses = @ \o << NewPulse(px - 15 * PosUnit, py),
                                          NewPulse(px, py),
                                          NewPulse(px + 15 * PosUnit, py) >>]
        ELSE [g EXCEPT !.pulses = Append(@, NewPulse(px, py))]
firePulses(g) ==
    LET px == g.player.x
        py == g.player.y - (PlayerHeight * PosUnit) \div 2
    IN  IF Len(g.pulses) < MaxPulses
        THEN IF g.activePowerUps.multiShot > 0
             THEN [g EXCEPT !.pulses = @ \o << NewPulse(px - 15 * PosUnit, py),
                                               NewPulse(px, py),
                                               NewPulse(px + 15 * PosUnit, py) >>]
             ELSE [g EXCEPT !.pulses = Append(@, NewPulse(px, py))]
        ELSE g
fireUnguarded(g) == firePulses(g)
fire(g) ==
    IF g.state # PLAYING THEN g ELSE firePulses(g)

\* -------------------------------------------------- Game.update, by parts
\* Update difficulty: a level every 5 seconds, the multiplier in tenths.
multiplierUncapped(lvl) == 10 + lvl * 4
multiplierOf(lvl) == Min(10 + lvl * 4, 40)

levelOf(timer) == timer \div DifficultyPeriod

updateDifficultyQuiet(g, deltaTime) ==
    LET timer == g.difficultyTimer + deltaTime
        newDifficultyLevel == levelOf(timer)
    IN  IF newDifficultyLevel > g.difficultyLevel
        THEN [g EXCEPT !.difficultyTimer = timer,
                       !.difficultyLevel = newDifficultyLevel,
                       !.difficultyMultiplier = multiplierOf(newDifficultyLevel),
                       !.ev.levelUp = TRUE]
        ELSE [g EXCEPT !.difficultyTimer = timer]
updateDifficulty(g, deltaTime) ==
    LET timer == g.difficultyTimer + deltaTime
        newDifficultyLevel == levelOf(timer)
    IN  IF newDifficultyLevel > g.difficultyLevel
        THEN Shake([g EXCEPT !.difficultyTimer = timer,
                             !.difficultyLevel = newDifficultyLevel,
                             !.difficultyMultiplier = multiplierOf(newDifficultyLevel),
                             !.ev.levelUp = TRUE], 5)
        ELSE [g EXCEPT !.difficultyTimer = timer]

\* Player.update: lerp toward the target, then clamp.
playerUpdate(p, cv) ==
    LET halfWidth == (PlayerWidth * PosUnit) \div 2
        x == lerp12(p.x, p.targetX)
    IN  [p EXCEPT !.x = Max(halfWidth, Min(cv.width * PosUnit - halfWidth, x))]

\* Auto-fire while playing.
fireRate(g) == IF g.activePowerUps.rapidFire > 0 THEN 75 ELSE 120

autoFire(g, deltaTime) ==
    LET timer == g.autoFireTimer + deltaTime
    IN  IF timer >= fireRate(g)
        THEN LET f == fire(g)
             IN  [f EXCEPT !.autoFireTimer = 0,
                           !.ev.fired = Len(f.pulses) - Len(g.pulses)]
        ELSE [g EXCEPT !.autoFireTimer = timer]

\* Pulse.update, and the filter that keeps the pulses still on screen.
RECURSIVE updatePulses(_)
updatePulses(ps) ==
    IF ps = << >> THEN << >>
    ELSE LET p == [Head(ps) EXCEPT !.y = @ - PulseSpeed * PosUnit]
         IN  IF p.y > -(PulseRadius * PosUnit)
             THEN << p >> \o updatePulses(Tail(ps))
             ELSE updatePulses(Tail(ps))

\* Game.spawnClot: x = 30 + Math.random() * (canvas.width - 60); d.x is the
\* draw in hundredths.
spawnClot(g, d) ==
    LET x == 30 * PosUnit + (d.x * (g.canvas.width - 60) * PosUnit) \div 100
    IN  [g EXCEPT !.clots = Append(@, NewClot(x, ClotStartY * PosUnit,
                                              g.difficultyMultiplier, d)),
                  !.ev.spawned = @ + 1]

\* The spawn is due when spawnTimer >= 2500 / difficultyMultiplier.
spawnDueFixed(timer, m10) == timer >= baseSpawnRate
spawnDue(timer, m10) == timer * m10 >= baseSpawnRate * 10

\* Spawn clots; rnd.extra1 is Math.random() < 0.3, rnd.extra2 is
\* Math.random() < 0.25, rnd.clot the draws of the (up to three) new clots.
spawnClotsNever(g, deltaTime, rnd) ==
    [g EXCEPT !.spawnTimer = @ + deltaTime]
spawnClots(g, deltaTime, rnd) ==
    LET timer == g.spawnTimer + deltaTime
    IN  IF spawnDue(timer, g.difficultyMultiplier)
        THEN Bind([spawnClot(g, rnd.clot[1]) EXCEPT !.spawnTimer = 0], LAMBDA g1 :
             Bind(IF g.difficultyLevel >= 3 /\ rnd.extra1
                  THEN spawnClot(g1, rnd.clot[2]) ELSE g1,             LAMBDA g2 :
                  IF g.difficultyLevel >= 5 /\ rnd.extra2
                  THEN spawnClot(g2, rnd.clot[3]) ELSE g2))
        ELSE [g EXCEPT !.spawnTimer = timer]

\* Clot.update: fall, drift, bounce off the walls.
clotUpdateNoBounce(c, canvasWidth) ==
    LET x  == c.x + c.vx
        lo == c.radius * PosUnit
        hi == (canvasWidth - c.radius) * PosUnit
    IN  [c EXCEPT !.y = c.y + c.speed,
                  !.x = Max(lo, Min(hi, x))]
clotUpdate(c, canvasWidth) ==
    LET y  == c.y + c.speed
        x  == c.x + c.vx
        lo == c.radius * PosUnit
        hi == (canvasWidth - c.radius) * PosUnit
    IN  [c EXCEPT !.y = y,
                  !.vx = IF x < lo \/ x > hi THEN -c.vx ELSE c.vx,
                  !.x = Max(lo, Min(hi, x))]

updateClots(g) ==
    [g EXCEPT !.clots = [i \in DOMAIN g.clots |-> clotUpdate(g.clots[i], g.canvas.width)]]

\* ------------------------------------------------- Game.checkCollisions
\* Min(combo, 10)
comboBonusUncapped(c) == c
comboBonusOf(c) == Min(c, MaxComboBonus)

\* if (this.combo > this.maxCombo) this.maxCombo = this.combo
raisedMaxLast(maxSoFar, c) == c
raisedMax(maxSoFar, c) == IF c > maxSoFar THEN c ELSE maxSoFar

\* The body of the inner loop for a pulse and a clot that collide: g is the
\* game so far, pi and ci the indices, types the kinds of the power-ups the
\* scan has still to draw.  The result is the game and the kinds left.
onHit(g, pi, ci, types) ==
    LET newCombo   == g.combo + 1
        comboBonus == comboBonusOf(newCombo)
        clot       == hit(g.clots[ci])
        destroyed  == hitReturn(clot)
        crs        == IF destroyed THEN onClotDestroyed(g.crsValue, getScale(clot))
                      ELSE g.crsValue
        drops      == destroyed /\ clot.dropsPowerUp
        typeKey    == IF types = << >> THEN "HEAL" ELSE Head(types)
        gained     == HitScore * comboBonus
                      + (IF destroyed THEN DestroyScore * comboBonus ELSE 0)
        h == [ pulse |-> pi, clot |-> ci, combo |-> newCombo,
               comboBefore |-> g.combo, timerBefore |-> g.comboTimer,
               destroyed |-> destroyed, radius |-> clot.radius,
               x |-> clot.x, y |-> clot.y,
               baseRadius |-> clot.baseRadius, shrinkAmount |-> clot.shrinkAmount,
               scale |-> getScale(clot), dropped |-> drops,
               scoreBefore |-> g.score, scoreAfter |-> g.score + gained,
               crsBefore |-> g.crsValue, crsAfter |-> crs ]
        g1 == [g EXCEPT !.combo = newCombo,
                        !.comboTimer = ComboWindow,
                        !.maxCombo = raisedMax(@, newCombo),
                        !.score = @ + gained,
                        !.clots[ci] = clot,
                        !.crsValue = crs,
                        !.powerUps = IF drops
                                     THEN Append(@, NewPowerUp(clot.x, clot.y, typeKey))
                                     ELSE @,
                        !.ev.hits = Append(@, h)]
    IN  [ g |-> IF destroyed THEN Shake(g1, 4) ELSE g1,
          types |-> IF drops /\ types # << >> THEN Tail(types) ELSE types ]

\* The two nested forEach loops, pair k of Len(pulses) * Len(clots) onward,
\* pulses outermost; pr and cr are pulsesToRemove and clotsToRemove.
RECURSIVE scanPairs(_, _, _, _, _)
scanPairs(g, k, pr, cr, types) ==
    LET nc == Len(g.clots)
        pi == ((k - 1) \div nc) + 1
        ci == ((k - 1) % nc) + 1
    IN  IF nc = 0 \/ k > Len(g.pulses) * nc
        THEN [ g |-> g, pr |-> pr, cr |-> cr ]
        ELSE IF circleCollision(g.pulses[pi].x, g.pulses[pi].y, PulseRadius,
                                g.clots[ci].x, g.clots[ci].y, g.clots[ci].radius)
             THEN Bind(onHit(g, pi, ci, types), LAMBDA r :
                      scanPairs(r.g, k + 1, pr \cup {pi},
                                IF hitReturn(r.g.clots[ci]) THEN cr \cup {ci} ELSE cr,
                                r.types))
             ELSE scanPairs(g, k + 1, pr, cr, types)

\* s without the elements whose index is in idx
RECURSIVE dropIndices(_, _, _)
dropIndices(s, idx, i) ==
    IF i > Len(s) THEN << >>
    ELSE (IF i \in idx THEN << >> ELSE << s[i] >>) \o dropIndices(s, idx, i + 1)

checkCollisionsKeepClots(g, types) ==
    Bind(scanPairs(g, 1, {}, {}, types), LAMBDA r :
        [r.g EXCEPT !.pulses = dropIndices(r.g.pulses, r.pr, 1),
                    !.ev.scoreAfterScan = r.g.score,
                    !.ev.crsAfterScan = r.g.crsValue])
checkCollisions(g, types) ==
    Bind(scanPairs(g, 1, {}, {}, types), LAMBDA r :
        [r.g EXCEPT !.pulses = dropIndices(r.g.pulses, r.pr, 1),
                    !.clots = dropIndices(r.g.clots, r.cr, 1),
                    !.ev.scoreAfterScan = r.g.score,
                    !.ev.crsAfterScan = r.g.crsValue])

\* ------------------------------------------- escapes, CRS, critical, failed
\* clot.y > canvas.height + clot.radius
escaped(c, cv) == c.y > (cv.height + c.radius) * PosUnit

\* 25 + scale * 15, in 1/CrsOne
escapePenalty(c) ==
    EscapeBase * CrsOne + getScale(c) * EscapeFactor * (CrsOne \div ScaleOne)

\* The filter that removes the clots that passed the screen, clot i onward.
RECURSIVE removeEscaped(_, _)
removeEscaped(g, i) ==
    IF i > Len(g.clots) THEN g
    ELSE IF escaped(g.clots[i], g.canvas)
         THEN Bind(Shake([g EXCEPT !.crsValue = @ + escapePenalty(g.clots[i]),
                                   !.clots = dropIndices(@, {i}, 1),
                                   !.ev.escapes = Append(@, getScale(g.clots[i]))], 8),
                   LAMBDA g1 : removeEscaped(g1, i))
         ELSE removeEscaped(g, i + 1)

escapes(g) ==
    Bind(removeEscaped(g, 1), LAMBDA g1 :
        [g1 EXCEPT !.ev.crsAfterEscapes = g1.crsValue])

\* this.crs.update(this.clots, deltaTime)
updateCRS(g, deltaTime) ==
    Bind(crsUpdate(g.crsValue, g.clots, deltaTime), LAMBDA crs :
        [g EXCEPT !.crsValue = crs, !.ev.crsAtCheck = crs])

\* Check for critical CRS
checkCriticalNoLatch(g) ==
    IF isCritical(g.crsValue)
    THEN Shake([g EXCEPT !.wasCritical = TRUE, !.ev.critical = TRUE], 15)
    ELSE [g EXCEPT !.wasCritical = FALSE]
checkCritical(g) ==
    IF isCritical(g.crsValue)
    THEN IF ~g.wasCritical
         THEN Shake([g EXCEPT !.wasCritical = TRUE, !.ev.critical = TRUE], 15)
         ELSE g
    ELSE [g EXCEPT !.wasCritical = FALSE]

\* Check for game over
checkGameOverModal(g) ==
    IF isFailed(g.crsValue)
    THEN [g EXCEPT !.state = SCIENCE_MODAL,
                   !.ev.gameOver = TRUE, !.ev.shownScore = g.score]
    ELSE g
checkGameOver(g) ==
    IF isFailed(g.crsValue)
    THEN [g EXCEPT !.state = GAME_OVER,
                   !.ev.gameOver = TRUE, !.ev.shownScore = g.score]
    ELSE g

\* ------------------------------------------------------------- power-ups
\* PowerUp.update, and the filter that keeps the power-ups with y < 1000.
RECURSIVE updatePowerUps(_)
updatePowerUps(ps) ==
    IF ps = << >> THEN << >>
    ELSE LET p == [Head(ps) EXCEPT !.y = @ + (3 * PosUnit) \div 2]
         IN  IF p.y < PowerUpBound * PosUnit
             THEN << p >> \o updatePowerUps(Tail(ps))
             ELSE updatePowerUps(Tail(ps))

\* The HEAL case of Game.applyPowerUp: Math.max(0, crsValue - 25)
healUnfloored(crs) == crs - HealAmount * CrsOne
heal(crs) == Max(0, crs - HealAmount * CrsOne)

\* Game.applyPowerUp
applyPowerUp(g, typeKey) ==
    LET g1 == CASE typeKey = "RAPID_FIRE" ->
                     [g EXCEPT !.activePowerUps.rapidFire = Duration("RAPID_FIRE")]
                [] typeKey = "HEAL" ->
                     [g EXCEPT !.crsValue = heal(@)]
                [] typeKey = "MULTI_SHOT" ->
                     [g EXCEPT !.activePowerUps.multiShot = Duration("MULTI_SHOT")]
                [] typeKey = "SHIELD" ->
                     [g EXCEPT !.activePowerUps.shield = Duration("SHIELD")]
                [] OTHER -> g
    IN  [g1 EXCEPT !.score = @ + PowerUpScore]

\* dist < pu.radius + 30, the distance from the player's centre
collectsNoMargin(pu, p) ==
    circleCollision(p.x, p.y, 0, pu.x, pu.y, PowerUpRadius)
collects(pu, p) ==
    circleCollision(p.x, p.y, PickupMargin, pu.x, pu.y, PowerUpRadius)

\* The filter that collects the power-ups, power-up i onward.
RECURSIVE collectPowerUps(_, _)
collectPowerUps(g, i) ==
    IF i > Len(g.powerUps) THEN g
    ELSE IF collects(g.powerUps[i], g.player)
         THEN Bind(Shake([applyPowerUp(g, g.powerUps[i].typeKey)
                             EXCEPT !.powerUps = dropIndices(@, {i}, 1),
                                    !.ev.collected = Append(@, g.powerUps[i].typeKey)], 3),
                   LAMBDA g1 : collectPowerUps(g1, i))
         ELSE collectPowerUps(g, i + 1)

\* Update combo timer
updateCombo(g, deltaTime) ==
    IF g.combo > 0
    THEN LET timer == g.comboTimer - deltaTime
         IN  [g EXCEPT !.comboTimer = timer,
                       !.combo = IF timer <= 0 THEN 0 ELSE @]
    ELSE g

\* Update active power-up timers
tick(t, deltaTime) == IF t > 0 THEN t - deltaTime ELSE t

updateActivePowerUps(g, deltaTime) ==
    [g EXCEPT !.activePowerUps =
        [key \in DOMAIN g.activePowerUps |-> tick(g.activePowerUps[key], deltaTime)]]

\* ------------------------------------------------------------ Game.update
\* rnd holds the frame's Math.random() draws: those of the spawn and, in
\* rnd.types, the kinds of the power-ups the collision scan creates.  The
\* body of update, after its guard:
updatePlaying(g, deltaTime, rnd) ==
         Bind(updateDifficulty(g, deltaTime),                         LAMBDA g1 :
         Bind([g1 EXCEPT !.player = playerUpdate(@, g1.canvas)],      LAMBDA g2 :
         Bind(autoFire(g2, deltaTime),                                LAMBDA g3 :
         Bind([g3 EXCEPT !.pulses = updatePulses(@)],                 LAMBDA g4 :
         Bind(spawnClots(g4, deltaTime, rnd),                         LAMBDA g5 :
         Bind(updateClots(g5),                                        LAMBDA g6 :
         Bind(checkCollisions(g6, rnd.types),                         LAMBDA g7 :
         Bind(escapes(g7),                                            LAMBDA g8 :
         Bind(updateCRS(g8, deltaTime),                               LAMBDA g9 :
         Bind(checkCritical(g9),                                      LAMBDA g10 :
         Bind(checkGameOver(g10),                                     LAMBDA g11 :
         Bind([g11 EXCEPT !.powerUps = updatePowerUps(@),
                          !.ev.culled = Len(g11.powerUps)
                                        - Len(updatePowerUps(g11.powerUps))],
                                                                      LAMBDA g12 :
         Bind(collectPowerUps(g12, 1),                                LAMBDA g13 :
         Bind(updateCombo(g13, deltaTime),                            LAMBDA g14 :
              updateActivePowerUps(g14, deltaTime)))))))))))))))

\* if (this.state !== GAME_STATES.PLAYING) return;
updateUnguarded(g, deltaTime, rnd) == updatePlaying(g, deltaTime, rnd)
update(g, deltaTime, rnd) ==
    IF g.state # PLAYING THEN g ELSE updatePlaying(g, deltaTime, rnd)

\* Game.gameLoop: deltaTime = currentTime - lastTime, here the gap between
\* the two timestamps, capped.
uncappedDelta(gap) == gap
cappedDelta(gap) == Min(gap, MaxDelta)

\* The history sinceHit after a frame that took the game g to u: zero when
\* the frame's scan had a hit, otherwise the frame's time more (no more is
\* counted beyond twice the combo window), and -1 for no hit yet.
sinceHitAfter(g, u, deltaTime) ==
    IF u.ev.hits # << >> THEN 0
    ELSE IF g.state # PLAYING \/ g.sinceHit < 0 THEN g.sinceHit
    ELSE Min(g.sinceHit + deltaTime, 2 * ComboWindow)

gameLoop(game, gap, rnd) ==
    Bind(game, LAMBDA g :
    Bind(update([g EXCEPT !.ev = [NoEv EXCEPT !.op = "update",
                                                  !.dt = cappedDelta(gap),
                                                  !.arg = gap]],
                cappedDelta(gap), rnd), LAMBDA u :
        [u EXCEPT !.sinceHit = sinceHitAfter(g, u, cappedDelta(gap))]))

\* ------------------------------------------------ the other entry points
\* Game.startGame
startGame(g) ==
    [g EXCEPT !.state = PLAYING, !.level = 0, !.score = 0,
              !.pulses = << >>, !.clots = << >>, !.powerUps = << >>,
              !.crsValue = 0, !.spawnTimer = 0, !.wasCritical = FALSE,
              !.difficultyTimer = 0, !.difficultyLevel = 0,
              !.difficultyMultiplier = 10,
              !.combo = 0, !.comboTimer = 0, !.maxCombo = 0,
              !.activePowerUps = [ rapidFire |-> 0, multiShot |-> 0, shield |-> 0 ],
              !.sinceHit = -1,
              !.ev = [NoEv EXCEPT !.op = "startGame"]]

\* Game.nextLevel
nextLevel(g) ==
    IF g.level + 1 >= LevelCount
    THEN [g EXCEPT !.level = @ + 1, !.state = SCIENCE_MODAL,
                   !.ev = [NoEv EXCEPT !.op = "nextLevel"]]
    ELSE [g EXCEPT !.level = @ + 1, !.state = PLAYING,
                   !.clots = << >>, !.pulses = << >>, !.spawnTimer = 0,
                   !.difficultyTimer = 0, !.difficultyLevel = 0,
                   !.difficultyMultiplier = 10,
                   !.ev = [NoEv EXCEPT !.op = "nextLevel"]]

\* Game.closeModal
closeModalPaused(g) ==
    [g EXCEPT !.state = PAUSED, !.ev = [NoEv EXCEPT !.op = "closeModal"]]
closeModal(g) ==
    [g EXCEPT !.state = MENU, !.ev = [NoEv EXCEPT !.op = "closeModal"]]

\* Game.handleMouse, and Game.handleTouch on a touchmove: x is the pointer's
\* place on the canvas.
handleMouse(g, x) ==
    IF g.state # PLAYING THEN [g EXCEPT !.ev = [NoEv EXCEPT !.op = "handleMouse", !.arg = x]]
    ELSE [g EXCEPT !.player.targetX = x,
                   !.ev = [NoEv EXCEPT !.op = "handleMouse", !.arg = x]]

\* The click listener: Game.fire
click(g) ==
    [fire(g) EXCEPT !.ev = [NoEv EXCEPT !.op = "fire"]]

\* Game.handleTouch on a touchstart: set the target, then fire
handleTouchStart(g, x) ==
    IF g.state # PLAYING THEN [g EXCEPT !.ev = [NoEv EXCEPT !.op = "touchstart", !.arg = x]]
    ELSE [fire([g EXCEPT !.player.targetX = x])
             EXCEPT !.ev = [NoEv EXCEPT !.op = "touchstart", !.arg = x]]

\* Game.levelComplete (no listener and no method calls it)
levelComplete(g) ==
    [g EXCEPT !.state = LEVEL_COMPLETE, !.ev = [NoEv EXCEPT !.op = "levelComplete"]]

\* Game.resize
resize(g, cv) ==
    [g EXCEPT !.canvas = cv,
              !.player.y = (cv.height - PlayerBottom) * PosUnit,
              !.ev = [NoEv EXCEPT !.op = "resize"]]

\* ======================================================================
\* SpecCRS: the CRSCalculator alone, called as the Game calls it.
\* ======================================================================
\* The canvas of the unit specifications (no frame runs in them).
UnitCanvas == [ width |-> 300, height |-> 100 ]

\* An entity of the given base radius and radius, for CRSCalculator.update.
Entity(baseRadius, radius, hasGetScale) ==
    [ x |-> 0, y |-> 0, baseRadius |-> baseRadius, radius |-> radius,
      minRadius |-> minRadius, shrinkAmount |-> 5, speed |-> 0, vx |-> 0,
      dropsPowerUp |-> FALSE, hasGetScale |-> hasGetScale ]

\* The clot lists handed to update: one full-size clot, a full-size and a
\* half-size clot, an entity without getScale (scale = radius / 50) and a
\* full-size clot.
CrsClotLists ==
    { << Entity(75, 75, TRUE) >>,
      << Entity(50, 50, TRUE), Entity(50, 25, TRUE) >>,
      << Entity(0, 50, FALSE), Entity(75, 75, TRUE) >> }

\* The elapsed times handed to update: the capped frame times.
CrsDeltas == {16, 32}

\* The scales handed to onClotDestroyed: 1.0 and 0.5, and scales that
\* checkCollisions hands over, those of a clot after a hit that destroyed
\* it: 10/50, and -6/50 of a clot hit again in the same scan.
CrsScales == { ScaleOne, ScaleOne \div 2, (10 * ScaleOne) \div 50,
               (-6 * ScaleOne) \div 50 }

InitCRS ==
    \E cs \in CrsClotLists : Is([NewGame(UnitCanvas) EXCEPT !.clots = cs])

CallUpdate ==
    \E deltaTime \in CrsDeltas :
        /\ crsValue' = crsUpdate(crsValue, clots, deltaTime)
        /\ ev' = [NoEv EXCEPT !.op = "crs.update", !.dt = deltaTime]
        /\ UNCHANGED << restOfGame, clots >>

\* (The calls explored are those on a value that is still in range.)
CallOnClotDestroyed ==
    \E clotScale \in CrsScales :
        /\ crsValue <= maxCRS * CrsOne
        /\ crsValue' = onClotDestroyed(crsValue, clotScale)
        /\ ev' = [NoEv EXCEPT !.op = "crs.onClotDestroyed", !.arg = clotScale]
        /\ UNCHANGED << restOfGame, clots >>

CallReset ==
    /\ crsValue' = 0
    /\ ev' = [NoEv EXCEPT !.op = "crs.reset"]
    /\ UNCHANGED << restOfGame, clots >>

NextCRS == CallUpdate \/ CallOnClotDestroyed \/ CallReset

SpecCRS == InitCRS /\ [][NextCRS]_vars

\* ======================================================================
\* SpecClot: one Clot, hit again and again.
\* ======================================================================
\* Math.random() draws of the Clot constructor: baseRadius in [45, 80),
\* shrinkAmount in [5, 8).
UnitBaseRadii == {45, 50, 52, 60, 75, 79}
UnitShrinks   == {5, 6, 7}

\* hit() is called on a clot until it is this far below zero.
MaxOverkill == 20

InitClot ==
    \E b \in UnitBaseRadii, sh \in UnitShrinks :
        Is([NewGame(UnitCanvas) EXCEPT
               !.clots = << [Entity(b, b, TRUE) EXCEPT !.shrinkAmount = sh] >>])

CallHit ==
    /\ clots[1].radius > -MaxOverkill
    /\ clots' = << hit(clots[1]) >>
    /\ ev' = [NoEv EXCEPT !.op = "clot.hit", !.ret = hitReturn(hit(clots[1]))]
    /\ UNCHANGED << restOfGame, crsValue >>

NextClot == CallHit

SpecClot == InitClot /\ [][NextClot]_vars

\* ======================================================================
\* The draws of a frame, for the specifications that run frames.
\* ======================================================================
\* The draws of a frame that spawns no clot and creates no power-up.
NoDraws ==
    LET d == [ x |-> 0, baseRadius |-> 50, shrinkAmount |-> 5, speed |-> 40,
               vx |-> 0, dropsPowerUp |-> FALSE ]
    IN  [ extra1 |-> FALSE, extra2 |-> FALSE, clot |-> << d, d, d >>, types |-> << >> ]

\* Whether a frame of the game g with this elapsed time spawns.
spawnsIn(g, deltaTime) ==
    /\ g.state = PLAYING
    /\ spawnDue(g.spawnTimer + deltaTime,
                updateDifficulty(g, deltaTime).difficultyMultiplier)

\* The spawn draws a frame can make: none when it spawns nothing, and only
\* the draws the level reads; extras are the outcomes of the two draws for a
\* second and a third clot.
SpawnDraws(g, deltaTime, kinds, extras) ==
    IF ~spawnsIn(g, deltaTime) THEN { NoDraws }
    ELSE LET lvl == updateDifficulty(g, deltaTime).difficultyLevel
         IN  { [ NoDraws EXCEPT !.extra1 = e1, !.extra2 = e2, !.clot = << c1, c2, c3 >> ] :
                 e1 \in (IF lvl >= 3 THEN extras ELSE {FALSE}),
                 e2 \in (IF lvl >= 5 THEN extras ELSE {FALSE}),
                 c1 \in kinds, c2 \in kinds, c3 \in kinds }

\* The number of power-ups the frame's collision scan creates.
dropsIn(g, gap, rnd) ==
    Bind(gameLoop(g, gap, rnd).ev.hits, LAMBDA hits :
        Cardinality({ i \in DOMAIN hits : hits[i].dropped }))

\* All the draws a frame can make.
FrameDraws(g, gap, kinds, extras, types) ==
    UNION { { [ rnd EXCEPT !.types = t ] :
                t \in [ 1 .. dropsIn(g, gap, rnd) -> types ] } :
            rnd \in SpawnDraws(g, cappedDelta(gap), kinds, extras) }

\* ======================================================================
\* Spec: a session of play.  Frames of 32 ms, the start button, clicks and a
\* mouse move; clots spawn in a column the player has to move under.
\* ======================================================================
\* container.clientWidth and clientHeight
PlayCanvas == [ width |-> 300, height |-> 100 ]

\* The Math.random() draws of a spawned clot.
PlayClots ==
    { [ x |-> 99, baseRadius |-> 50, shrinkAmount |-> 5, speed |-> 75, vx |-> 0,
        dropsPowerUp |-> TRUE ],
      [ x |-> 99, baseRadius |-> 50, shrinkAmount |-> 7, speed |-> 75, vx |-> 0,
        dropsPowerUp |-> FALSE ] }

\* The kinds drawn for a dropped power-up.
PlayTypes == {"HEAL", "MULTI_SHOT"}

\* The gaps between two animation timestamps, in ms.
PlayGaps == {32}

\* Where the mouse points, in 1/PosUnit pixel.
PlayTargets == { 250 * PosUnit }

\* A session is followed for this long (ms of frame time).
MaxPlayTime == 5600

\* Clicks between two frames are followed while fewer pulses than this fly.
MaxVolley == 2

Init == Is(NewGame(PlayCanvas))

\* requestAnimationFrame's callback
Frame ==
    /\ state = PLAYING => difficultyTimer < MaxPlayTime
    /\ \E gap \in PlayGaps :
         \E rnd \in FrameDraws(Game, gap, PlayClots, {FALSE}, PlayTypes) :
            Becomes(gameLoop(Game, gap, rnd))

\* A click on the start or the restart button, of the menu and the game-over
\* screen
StartGame ==
    /\ state # PLAYING
    /\ Becomes(startGame(Game))

\* A click on the canvas.  While playing, the clicks followed are those of
\* the gap before a frame that auto-fires: their pulses and the auto-fired
\* one make a volley.
Click ==
    /\ Len(pulses) < MaxVolley
    /\ state = PLAYING => autoFireTimer + MaxDelta >= fireRate(Game)
    /\ Becomes(click(Game))

\* A mouse move over the canvas, to another place than the last
MouseMove ==
    \E x \in PlayTargets :
        /\ x # player.targetX
        /\ Becomes(handleMouse(Game, x))

Next == Frame \/ StartGame \/ Click \/ MouseMove

Spec == Init /\ [][Next]_vars

\* ======================================================================
\* SpecLong: long sessions.  Frames of 32 ms, the player rests under the
\* column most clots spawn in; a clot of the other column escapes.  The
\* sessions end by game over or at MaxLongTime, and restart.
\* ======================================================================
\* The Math.random() draws of a spawned clot: over the player, and far off
OnAxisClot ==
    [ x |-> 50, baseRadius |-> 50, shrinkAmount |-> 7, speed |-> 75, vx |-> 0,
      dropsPowerUp |-> FALSE ]
OffAxisClot ==
    [ x |-> 0, baseRadius |-> 50, shrinkAmount |-> 5, speed |-> 75, vx |-> 0,
      dropsPowerUp |-> FALSE ]

\* A session is followed for this long (ms of frame time).
MaxLongTime == 40100

\* Spawns in the far column are followed for this long into a session.
OffAxisTime == 9000

LongClots(g) ==
    IF g.difficultyTimer < OffAxisTime THEN { OnAxisClot, OffAxisClot }
    ELSE { OnAxisClot }

FrameLong ==
    /\ state = PLAYING
    /\ difficultyTimer < MaxLongTime
    /\ \E gap \in PlayGaps :
         \E rnd \in FrameDraws(Game, gap, LongClots(Game), {FALSE}, PlayTypes) :
            Becomes(gameLoop(Game, gap, rnd))

\* The inputs on the canvas while the game is not played
IdleClick ==
    /\ state # PLAYING
    /\ Becomes(click(Game))

IdleMouseMove ==
    /\ state # PLAYING
    /\ \E x \in PlayTargets : Becomes(handleMouse(Game, x))

IdleTouchStart ==
    /\ state # PLAYING
    /\ \E x \in PlayTargets : Becomes(handleTouchStart(Game, x))

NextLong == FrameLong \/ StartGame \/ IdleClick \/ IdleMouseMove \/ IdleTouchStart

SpecLong == Init /\ [][NextLong]_vars

\* ======================================================================
\* SpecTiming: sessions whose frames take 32 ms at first and 16 ms later.
\* The player rests; a clot over it is shot down by the auto-fire, a clot to
\* the side comes into reach later, and a click after a quiet time hits it.
\* ======================================================================
\* The Math.random() draws of a spawned clot: over the player, and to its side
SideClot ==
    [ x |-> 72, baseRadius |-> 50, shrinkAmount |-> 7, speed |-> 75, vx |-> 0,
      dropsPowerUp |-> FALSE ]
TimingClots == { OnAxisClot, SideClot }

\* The frames of a session take 32 ms for this long (ms of frame time), and
\* 16 ms from then on.
LongFramesTime == 5760

\* A session is followed for this long (ms of frame time).
MaxTimingTime == 7000

\* Clicks are followed when no hit was scored for this long (ms).
QuietTime == 1000

TimingGap(g) == IF g.difficultyTimer < LongFramesTime THEN 32 ELSE 16

FrameTiming ==
    /\ state = PLAYING
    /\ difficultyTimer < MaxTimingTime
    /\ \E rnd \in FrameDraws(Game, TimingGap(Game), TimingClots, {FALSE}, PlayTypes) :
           Becomes(gameLoop(Game, TimingGap(Game), rnd))

ClickTiming ==
    /\ state = PLAYING
    /\ sinceHit >= QuietTime
    /\ pulses = << >>
    /\ Becomes(click(Game))

NextTiming == FrameTiming \/ StartGame \/ ClickTiming

SpecTiming == Init /\ [][NextTiming]_vars

\* ======================================================================
\* SpecPower: sessions with power-ups.  Frames of 32 ms, the player rests
\* under the column whose clots drop a power-up when they are destroyed; a
\* clot of the other column escapes.
\* ======================================================================
\* The Math.random() draws of a spawned clot that drops a power-up
PowerClot ==
    [ x |-> 50, baseRadius |-> 50, shrinkAmount |-> 7, speed |-> 75, vx |-> 0,
      dropsPowerUp |-> TRUE ]

\* The kinds drawn for a dropped power-up.
PowerTypes == {"RAPID_FIRE", "HEAL", "MULTI_SHOT"}

\* A session is followed for this long (ms of frame time).
MaxPowerTime == 13000

\* Spawns in the far column are followed for this long into a session.
PowerOffAxisTime == 9000

PowerClots(g) ==
    IF g.difficultyTimer < PowerOffAxisTime THEN { PowerClot, OffAxisClot }
    ELSE { PowerClot }

FramePower ==
    /\ state = PLAYING
    /\ difficultyTimer < MaxPowerTime
    /\ \E gap \in PlayGaps :
         \E rnd \in FrameDraws(Game, gap, PowerClots(Game), {FALSE}, PowerTypes) :
            Becomes(gameLoop(Game, gap, rnd))

NextPower == FramePower \/ StartGame

SpecPower == Init /\ [][NextPower]_vars

\* ======================================================================
\* SpecLoop: the game loop and the window.  Frames after gaps short and
\* long, a mouse move, and resizes of the window between two widths.
\* ======================================================================
\* The gaps between two animation timestamps, in ms: a fast frame, a slow
\* one, and a stall (or the first frame, whose gap is its timestamp).
LoopGaps == {16, 40, 5000}

\* container.clientWidth and clientHeight after a resize
LoopCanvases == { PlayCanvas, [ width |-> 160, height |-> 100 ] }

\* A session is followed for this long (ms of frame time).
MaxLoopTime == 320

FrameLoop ==
    /\ state = PLAYING => difficultyTimer < MaxLoopTime
    /\ \E gap \in LoopGaps :
         \E rnd \in FrameDraws(Game, gap, PlayClots, {FALSE}, PlayTypes) :
            Becomes(gameLoop(Game, gap, rnd))

\* The window's resize listener
Resize ==
    \E cv \in LoopCanvases :
        /\ cv # canvas
        /\ Becomes(resize(Game, cv))

NextLoop == FrameLoop \/ StartGame \/ MouseMove \/ Resize

SpecLoop == Init /\ [][NextLoop]_vars

\* ======================================================================
\* SpecFlow: the buttons.  Frames of 32 ms in every state, with the clots of
\* the long sessions; the start and restart buttons, the next-level button
\* and the button that closes the science modal; the inputs on the canvas
\* while the game is not played.
\* ======================================================================
\* A session is followed for this long (ms of frame time).
MaxFlowTime == 13000

\* The next-level button is followed up to this level index.
MaxLevel == 4

\* While a level is played, the next-level and the close button are followed
\* in its first FlowWindow ms.
FlowWindow == 64

FrameFlow ==
    /\ state = PLAYING => difficultyTimer < MaxFlowTime
    /\ \E gap \in PlayGaps :
         \E rnd \in FrameDraws(Game, gap, LongClots(Game), {FALSE}, PlayTypes) :
            Becomes(gameLoop(Game, gap, rnd))

\* A click on the next-level button
NextLevel ==
    /\ level < MaxLevel
    /\ state = PLAYING => difficultyTimer <= FlowWindow
    /\ Becomes(nextLevel(Game))

\* A click on the button that closes the science modal
CloseModal ==
    /\ state # MENU
    /\ state = PLAYING => difficultyTimer <= FlowWindow
    /\ Becomes(closeModal(Game))

NextFlow ==
    \/ FrameFlow \/ StartGame \/ NextLevel \/ CloseModal
    \/ IdleClick \/ IdleMouseMove \/ IdleTouchStart

SpecFlow == Init /\ [][NextFlow]_vars

\* ======================================================================
\* SpecFire: sessions on a tall canvas, where a pulse flies for 35 frames.
\* Frames of 32 ms, the player rests under the column the clots spawn in;
\* the first clots of a session may drop a power-up, which reaches the
\* player some 10 s later.
\* ======================================================================
\* container.clientWidth and clientHeight
FireCanvas == [ width |-> 300, height |-> 500 ]

\* The Math.random() draws of a spawned clot that drops no power-up
PlainClot ==
    [ x |-> 50, baseRadius |-> 50, shrinkAmount |-> 7, speed |-> 75, vx |-> 0,
      dropsPowerUp |-> FALSE ]

\* The kinds drawn for a dropped power-up.
FireTypes == {"RAPID_FIRE", "MULTI_SHOT"}

\* A session is followed for this long (ms of frame time).
MaxFireTime == 18000

\* Clots that drop a power-up are followed for this long into a session.
FireDropTime == 3000

FireClots(g) ==
    IF g.difficultyTimer < FireDropTime THEN { PowerClot, PlainClot }
    ELSE { PlainClot }

InitFire == Is(NewGame(FireCanvas))

FrameFire ==
    /\ state = PLAYING => difficultyTimer < MaxFireTime
    /\ \E gap \in PlayGaps :
         \E rnd \in FrameDraws(Game, gap, FireClots(Game), {FALSE}, FireTypes) :
            Becomes(gameLoop(Game, gap, rnd))

\* Clicks on the canvas are also followed while at least this many pulses
\* fly.
FullVolley == 19

\* A click on the canvas while the pulses are at the limit, or next to it
ClickFull ==
    /\ state = PLAYING
    /\ Len(pulses) >= FullVolley
    /\ Becomes(click(Game))

NextFire == FrameFire \/ StartGame \/ Click \/ ClickFull

SpecFire == InitFire /\ [][NextFire]_vars

\* ======================================================================
\* SpecSpawn: sessions that reach difficulty level 5, with the draws for a
\* second and a third clot.  Frames of 32 ms, the player rests under the
\* column the clots spawn in.
\* ======================================================================
\* A session is followed for this long (ms of frame time).
MaxSpawnTime == 26500

\* Both outcomes of the draws for an extra clot are followed in the first
\* ExtraWindow ms of every difficulty level; later in the level the draws
\* fail.
ExtraWindow == 1200

SpawnExtras(g) ==
    IF g.difficultyTimer % DifficultyPeriod < ExtraWindow THEN {FALSE, TRUE}
    ELSE {FALSE}

FrameSpawn ==
    /\ state = PLAYING => difficultyTimer < MaxSpawnTime
    /\ \E gap \in PlayGaps :
         \E rnd \in FrameDraws(Game, gap, {OnAxisClot}, SpawnExtras(Game), PlayTypes) :
            Becomes(gameLoop(Game, gap, rnd))

NextSpawn == FrameSpawn \/ StartGame

SpecSpawn == Init /\ [][NextSpawn]_vars

\* ======================================================================
\* SpecDrift: one Clot, spawned as Game.spawnClot spawns it and updated
\* frame after frame as it drifts to a wall.
\* ======================================================================
\* Math.random() draws of spawnClot and the Clot constructor: x in
\* hundredths, baseRadius in [45, 80), vx in [-0.25, 0.25) pixel.
DriftXs    == {0, 7, 50, 93, 99}
DriftVxs   == {-25, -7, 0, 24}
DriftRadii == {45, 79}

\* The clot is followed for this much of its fall (pixels).
MaxDriftFall == 40

InitDrift ==
    \E cv \in LoopCanvases, x \in DriftXs, vx \in DriftVxs, b \in DriftRadii :
        Is(spawnClot(NewGame(cv),
                     [ x |-> x, baseRadius |-> b, shrinkAmount |-> 5, speed |-> 79,
                       vx |-> vx, dropsPowerUp |-> FALSE ]))

CallClotUpdate ==
    /\ clots[1].y < (ClotStartY + MaxDriftFall) * PosUnit
    /\ clots' = << clotUpdate(clots[1], canvas.width) >>
    /\ ev' = [NoEv EXCEPT !.op = "clot.update"]
    /\ UNCHANGED << restOfGame, crsValue >>

NextDrift == CallClotUpdate

SpecDrift == InitDrift /\ [][NextDrift]_vars

\* ======================================================================
\* SpecDrop: sessions in which a power-up is left to fall.  Frames of 32 ms
\* on a canvas 200 px high; the first clot drops a power-up, far above the
\* player; the mouse may then move the player away, under the column of the
\* later clots.
\* ======================================================================
\* container.clientWidth and clientHeight
DropCanvas == [ width |-> 300, height |-> 200 ]

\* A session is followed for this long (ms of frame time).
MaxDropTime == 27000

\* Clots that drop a power-up are followed for this long into a session.
DropTime == 3000

\* The Math.random() draws of a spawned clot: over the player at first, and
\* where the mouse points later
DropClots(g) ==
    IF g.difficultyTimer < DropTime THEN { PowerClot }
    ELSE { [ PlainClot EXCEPT !.x = 92 ] }

InitDrop == Is(NewGame(DropCanvas))

FrameDrop ==
    /\ state = PLAYING => difficultyTimer < MaxDropTime
    /\ \E gap \in PlayGaps :
         \E rnd \in FrameDraws(Game, gap, DropClots(Game), {FALSE}, PlayTypes) :
            Becomes(gameLoop(Game, gap, rnd))

\* A mouse move over the canvas, after a frame whose scan dropped a power-up
MoveAway ==
    /\ state = PLAYING
    /\ ev.op = "update"
    /\ \E i \in DOMAIN ev.hits : ev.hits[i].dropped
    /\ \E x \in PlayTargets : Becomes(handleMouse(Game, x))

NextDrop == FrameDrop \/ StartGame \/ MoveAway

SpecDrop == InitDrop /\ [][NextDrop]_vars

\* ======================================================================
\* SpecOver: sessions that end while a power-up falls.  Frames of 32 ms on
\* the canvas 200 px high; the clots spawn in the far column and are left to
\* raise the CRS value, but for one over the player, which drops a power-up;
\* the mouse then moves the player away, and back under the power-up at any
\* time.
\* ======================================================================
\* A session is followed for this long (ms of frame time).
MaxOverTime == 17000

\* A clot that drops a power-up is followed in this part of a session (ms of
\* frame time).
OverDropFrom == 11000
OverDropTo   == 12000

OverClots(g) ==
    IF OverDropFrom <= g.difficultyTimer /\ g.difficultyTimer < OverDropTo
    THEN { PowerClot, OffAxisClot }
    ELSE { OffAxisClot }

FrameOver ==
    /\ state = PLAYING => difficultyTimer < MaxOverTime
    /\ \E gap \in PlayGaps :
         \E rnd \in FrameDraws(Game, gap, OverClots(Game), {FALSE}, PlayTypes) :
            Becomes(gameLoop(Game, gap, rnd))

\* A mouse move back to the middle of the canvas, while a power-up falls
MoveBack ==
    /\ state = PLAYING
    /\ powerUps # << >>
    /\ player.targetX # (canvas.width * PosUnit) \div 2
    /\ Becomes(handleMouse(Game, (canvas.width * PosUnit) \div 2))

NextOver == FrameOver \/ StartGame \/ MoveAway \/ MoveBack

SpecOver == InitDrop /\ [][NextOver]_vars

\* ======================================================================
\* SpecMiss: sessions in which the pulses miss.  Frames of 32 ms, the
\* player rests; the first clot of a session may spawn over the player, all
\* the others spawn in the far column and are never hit.
\* ======================================================================
\* A session is followed for this long (ms of frame time).
MaxMissTime == 16000

\* A clot over the player is followed for this long into a session.
MissHitTime == 3000

FrameMiss ==
    /\ state = PLAYING => difficultyTimer < MaxMissTime
    /\ \E gap \in PlayGaps :
         \E rnd \in FrameDraws(Game, gap,
                               IF difficultyTimer < MissHitTime
                               THEN { OnAxisClot, OffAxisClot } ELSE { OffAxisClot },
                               {FALSE}, PlayTypes) :
            Becomes(gameLoop(Game, gap, rnd))

NextMiss == FrameMiss \/ StartGame

SpecMiss == Init /\ [][NextMiss]_vars

\* The same sessions, with the frames that requestAnimationFrame keeps
\* scheduling: gameLoop asks for the next frame at the end of every frame.
SpecMissLive == SpecMiss /\ WF_vars(FrameMiss)

\* ======================================================================
\* The properties
\* ======================================================================
\* The hits of the last frame's collision scan, and the clot indices they
\* destroyed
Hits == ev.hits
DestroyedClots == { Hits[i].clot : i \in { j \in DOMAIN Hits : Hits[j].destroyed } }

\* The hits of the scan on the clot of hit i
HitsOnClotOf(i) == { j \in DOMAIN Hits : Hits[j].clot = Hits[i].clot }

\* 25 + 15 * scale, summed over the scales of a sequence, in 1/CrsOne
RECURSIVE PenaltySum(_)
PenaltySum(scales) ==
    IF scales = << >> THEN 0
    ELSE 25 * CrsOne + 15 * Head(scales) * (CrsOne \div ScaleOne)
         + PenaltySum(Tail(scales))

\* C1: after any sequence of CRSCalculator.update and onClotDestroyed calls
\* on a reset calculator, 0 <= crsValue <= 100.
C1_CrsInRange ==
    /\ 0 <= crsValue
    /\ crsValue <= 100 * CrsOne

\* C2: across hit() calls a clot's radius never increases, and a call returns
\* true exactly when the radius it leaves is <= minRadius.
C2_HitShrinksAndReports ==
    [][ ev'.op = "clot.hit" =>
          /\ clots'[1].radius <= clots[1].radius
          /\ ev'.ret <=> (clots'[1].radius <= clots'[1].minRadius) ]_vars

\* A hit() call has just left the radius exactly at minRadius, and returned
\* true.
C2_Witness ==
    /\ ev.op = "clot.hit"
    /\ clots[1].radius = clots[1].minRadius
    /\ clots[1].radius < clots[1].baseRadius
    /\ ev.ret

\* C3: for two consecutive hits of a session (frames of at most 32 ms): when
\* more than 1500 ms of frame time lie between their frames, the combo was
\* reset and the second hit leaves combo = 1; when at most 1500 ms lie
\* between them, it was not, and the second hit leaves the combo of the
\* first plus 1.
C3_ComboWindow ==
    [][ (ev'.op = "update" /\ ev'.dt <= 32 /\ ev'.hits # << >> /\ sinceHit >= 0) =>
          LET elapsed == sinceHit + ev'.dt
          IN  /\ elapsed > 1500 => ev'.hits[1].combo = 1
              /\ elapsed <= 1500 => (combo > 0 /\ ev'.hits[1].combo = combo + 1) ]_vars

\* C4: a frame in which clots of scales s1, s2, ... escape removes them from
\* the live clots and adds exactly 25 + 15 * s for each to the CRS value the
\* collision scan left; the frame ends with the CRS value clamped to 100.
C4_EscapePenalty ==
    [][ (ev'.op = "update" /\ ev'.escapes # << >>) =>
          /\ ev'.crsAfterEscapes = ev'.crsAfterScan + PenaltySum(ev'.escapes)
          /\ \A i \in DOMAIN ev'.escapes :
                 ev'.escapes[i] = ScaleOne =>
                     PenaltySum(<< ev'.escapes[i] >>) = 40 * CrsOne
          /\ Len(clots') = Len(clots) + ev'.spawned
                           - Cardinality(DestroyedClots') - Len(ev'.escapes)
          /\ \A i \in DOMAIN clots' : ~escaped(clots'[i], canvas')
          /\ crsValue' <= 100 * CrsOne
          /\ ev'.crsAfterEscapes >= 100 * CrsOne => crsValue' = 100 * CrsOne ]_vars

\* A frame in which a clot of scale 1.0 escaped, and its penalty took the CRS
\* value over 100: the frame ended with 100.
C4_Witness ==
    /\ ev.op = "update"
    /\ ev.escapes = << ScaleOne >>
    /\ ev.crsAfterEscapes > 100 * CrsOne
    /\ crsValue = 100 * CrsOne
    /\ clots # << >>

\* C5: onClotDestroyed(scale), as checkCollisions calls it for a destroying
\* hit, lowers the CRS value by exactly 5 * scale, floored at 0, and never
\* raises it.
C5_DestroyLowersCrs ==
    \A i \in DOMAIN Hits :
        Hits[i].destroyed =>
            /\ Hits[i].crsAfter =
                   Max(0, Hits[i].crsBefore - 5 * Hits[i].scale * (CrsOne \div ScaleOne))
            /\ Hits[i].crsAfter <= Hits[i].crsBefore

\* C6: at the end of every frame played, the elapsed time has grown by the
\* frame's time, difficultyLevel is floor(elapsed / 5000) and the multiplier
\* is min(1 + 0.4 * level, 4.0): 1.8 at 12000 ms, and never above 4.0.
C6_Difficulty ==
    [][ (ev'.op = "update" /\ state = PLAYING) =>
          /\ difficultyTimer' = difficultyTimer + ev'.dt
          /\ difficultyLevel' = difficultyTimer' \div 5000
          /\ difficultyMultiplier' = Min(10 + 4 * difficultyLevel', 40)
          /\ difficultyTimer' = 12000 => difficultyMultiplier' = 18
          /\ difficultyMultiplier' <= 40 ]_vars

\* The end of a frame 40 s into a session: level 8, where 1 + 0.4 * 8 is
\* above 4.0, and the multiplier is 4.0.
C6_Witness ==
    /\ ev.op = "update"
    /\ state = PLAYING
    /\ difficultyTimer >= 40000
    /\ difficultyLevel = 8
    /\ difficultyMultiplier = 40

\* C7: every hit of a collision scan adds exactly 5 * min(combo, 10) to the
\* score, combo being the counter after the hit's increment, and a further
\* 50 * min(combo, 10) when it destroys the clot; the scan changes the score
\* by nothing else.
C7_HitScore ==
    [][ ev'.op = "update" =>
          /\ \A i \in DOMAIN ev'.hits :
               LET h == ev'.hits[i]
               IN  /\ h.combo = h.comboBefore + 1
                   /\ h.scoreAfter - h.scoreBefore =
                          5 * Min(h.combo, 10)
                          + (IF h.destroyed THEN 50 * Min(h.combo, 10) ELSE 0)
                   /\ h.scoreBefore = IF i = 1 THEN score ELSE ev'.hits[i - 1].scoreAfter
          /\ ev'.scoreAfterScan =
                 IF ev'.hits = << >> THEN score
                 ELSE ev'.hits[Len(ev'.hits)].scoreAfter ]_vars

\* A frame whose scan had a destroying hit at a combo above 10: the hit
\* added 50 + 500 to the score.
C7_Witness ==
    /\ ev.op = "update"
    /\ Len(Hits) = 1
    /\ Hits[1].destroyed
    /\ Hits[1].combo > 10
    /\ score = Hits[1].scoreBefore + 550

\* C8: a hit on a clot that the frame hits once removes the clot from the
\* live clots exactly when the radius it leaves, B - n * s after the n-th
\* hit, is <= minRadius for the first time; and at the end of every frame
\* every live clot has radius > minRadius.
C8_ClotLeavesAtNthHit ==
    [][ ev'.op = "update" =>
          /\ \A i \in DOMAIN ev'.hits :
               LET h == ev'.hits[i]
               IN  HitsOnClotOf(i)' = {i} =>
                     /\ h.destroyed <=> h.radius <= minRadius
                     /\ h.destroyed => h.radius + h.shrinkAmount > minRadius
                     /\ (h.baseRadius - h.radius) % h.shrinkAmount = 0
          /\ Len(clots') = Len(clots) + ev'.spawned
                           - Cardinality(DestroyedClots') - Len(ev'.escapes)
          /\ \A i \in DOMAIN clots' : clots'[i].radius > clots'[i].minRadius ]_vars

\* A frame whose only hit was the 8th on a clot of base radius 50 and shrink
\* amount 5: it left the radius at minRadius, and the clot is gone.
C8_Witness ==
    /\ ev.op = "update"
    /\ Len(Hits) = 1
    /\ Hits[1].destroyed
    /\ Hits[1].radius = minRadius
    /\ Hits[1].baseRadius - 8 * Hits[1].shrinkAmount = minRadius
    /\ clots = << >>

\* C9: within one collision scan a clot that a hit has destroyed is not hit
\* again, so that its destruction rewards are granted at most once.
C9_DestroyedOnce ==
    \A i \in DOMAIN Hits : \A j \in DOMAIN Hits :
        (i < j /\ Hits[i].clot = Hits[j].clot) => ~Hits[i].destroyed

\* C10: when the state is not Playing, a mouse move, a touch and a click
\* leave the player's target x and the pulses unchanged: for the inputs that
\* arrive, and for the handlers in each of the states that are not Playing.
C10_InputsIgnored ==
    /\ [][ (state # PLAYING /\ ev'.op \in {"handleMouse", "touchstart", "fire"}) =>
             /\ player'.targetX = player.targetX
             /\ pulses' = pulses ]_vars
    /\ [](\A st \in GAME_STATES \ {PLAYING} : \A x \in PlayTargets :
             LET g == [Game EXCEPT !.state = st]
             IN  /\ handleMouse(g, x).player.targetX = player.targetX
                 /\ handleMouse(g, x).pulses = pulses
                 /\ handleTouchStart(g, x).player.targetX = player.targetX
                 /\ handleTouchStart(g, x).pulses = pulses
                 /\ click(g).player.targetX = player.targetX
                 /\ click(g).pulses = pulses)

\* A click arrived after the game was over, with pulses in flight and the
\* target away from where the mouse points.
C10_Witness ==
    /\ state = GAME_OVER
    /\ ev.op = "fire"
    /\ pulses # << >>
    /\ \E x \in PlayTargets : x # player.targetX

\* C11: startGame, from any state and after any history, enters Playing and
\* resets the session state: score 0, CRS 0, no pulses, clots or power-ups,
\* combo and max combo 0, every active power-up timer 0, and the difficulty,
\* spawn, combo and auto-fire timers 0.
C11_StartResets ==
    [][ ev'.op = "startGame" =>
          /\ state' = PLAYING
          /\ score' = 0 /\ crsValue' = 0
          /\ pulses' = << >> /\ clots' = << >> /\ powerUps' = << >>
          /\ combo' = 0 /\ maxCombo' = 0
          /\ \A key \in DOMAIN activePowerUps' : activePowerUps'[key] = 0
          /\ difficultyTimer' = 0 /\ spawnTimer' = 0 /\ comboTimer' = 0
          /\ autoFireTimer' = 0 ]_vars

C18_CriticalOnce ==
    [][ (ev'.op = "update" /\ state = PLAYING /\ ev.op \in {"update", "startGame"}) =>
          LET raised(e)  == \E i \in DOMAIN e.shakes : e.shakes[i] = 15
              wasBefore  == ev.op = "update" /\ ev.crsAtCheck >= 70 * CrsOne
          IN  /\ raised(ev') <=> (ev'.crsAtCheck >= 70 * CrsOne /\ ~wasBefore)
              /\ (ev.op = "update" /\ raised(ev)) => ~raised(ev') ]_vars

\* A frame found the CRS critical for the second time in a row: the frame
\* before raised the feedback, this one did not.
C18_Witness ==
    /\ ev.op = "update"
    /\ state = PLAYING
    /\ wasCritical
    /\ ev.crsAtCheck >= 70 * CrsOne
    /\ ~ev.critical
    /\ ev.shakes = << >>

\* C12: in every reachable state each active power-up timer (rapidFire,
\* multiShot, shield) is >= 0.
C12_TimersNonNegative ==
    \A key \in DOMAIN activePowerUps : activePowerUps[key] >= 0

\* C17: at the end of every frame and after startGame, 0 <= CRS <= 100.
C17_CrsInRangeAtFrameEnd ==
    [][ ev'.op \in {"update", "startGame"} =>
          (0 <= crsValue' /\ crsValue' <= 100 * CrsOne) ]_vars

\* A frame in which a heal was collected: the CRS update had left the value
\* above 0 and below 25, and the heal left 0.
C17_Witness ==
    /\ ev.op = "update"
    /\ \E i \in DOMAIN ev.collected : ev.collected[i] = "HEAL"
    /\ ev.crsAtCheck > 0
    /\ ev.crsAtCheck < 25 * CrsOne
    /\ crsValue = 0

\* C14: in every reachable state the player's x is within the canvas, half
\* the player's width from each edge.
C14_PlayerInBounds ==
    /\ (PlayerWidth * PosUnit) \div 2 <= player.x
    /\ player.x <= canvas.width * PosUnit - (PlayerWidth * PosUnit) \div 2

\* C15: every frame update the game loop calls receives an elapsed time of
\* at most 32 ms, the gap between the timestamps capped: a frame played
\* advances the session's time by that and no more.
C15_ElapsedCapped ==
    [][ ev'.op = "update" =>
          /\ ev'.dt <= 32
          /\ ev'.dt = Min(ev'.arg, 32)
          /\ state = PLAYING =>
               /\ difficultyTimer' = difficultyTimer + ev'.dt
               /\ difficultyTimer' - difficultyTimer <= 32 ]_vars

\* C16: within one collision scan a pulse scores at most one hit: no two
\* hits of the scan are of the same pulse.
C16_OneHitPerPulse ==
    \A i \in DOMAIN Hits : \A j \in DOMAIN Hits :
        i < j => Hits[i].pulse # Hits[j].pulse

\* C19: the only change of state a frame update makes is from Playing to
\* GameOver; and the science modal is entered only by nextLevel, when the
\* level index reaches the end of the level table.
C19_FrameOnlyEndsGame ==
    /\ [][ ev'.op = "update" =>
             (state' = state \/ (state = PLAYING /\ state' = GAME_OVER)) ]_vars
    /\ [][ (state' = SCIENCE_MODAL /\ state # SCIENCE_MODAL) =>
             /\ ev'.op = "nextLevel"
             /\ level' = level + 1
             /\ level' >= LevelCount ]_vars

\* The next-level button has just taken the game from the last level of the
\* table into the science modal.
C19_Witness ==
    /\ state = SCIENCE_MODAL
    /\ ev.op = "nextLevel"
    /\ level = LevelCount

\* C20: under any sequence of frames, inputs, startGame, nextLevel and
\* closeModal the state is never Paused and never LevelComplete.
C20_NoPausedNoLevelComplete ==
    /\ state \in GAME_STATES
    /\ state # PAUSED
    /\ state # LEVEL_COMPLETE

\* The tour of the other four states is complete: the science modal was
\* closed after a session that ended in game over.
C20_Witness ==
    /\ state = MENU
    /\ ev.op = "closeModal"
    /\ level >= LevelCount
    /\ crsValue = 100 * CrsOne

\* A frame played after a stall of 5 s: it advanced the session by 32 ms.
C15_Witness ==
    /\ ev.op = "update"
    /\ ev.arg = 5000
    /\ ev.dt = 32
    /\ state = PLAYING
    /\ difficultyTimer >= 64

\* C21: in every frame played in which the auto-fire timer, with the
\* frame's time added, exceeds the fire rate (75 ms while rapid fire is
\* active, 120 ms otherwise), a pulse is emitted and the timer is reset to
\* zero; a manual fire never changes the auto-fire timer.
C21_AutoFire ==
    /\ [][ (ev'.op = "update" /\ state = PLAYING
             /\ autoFireTimer + ev'.dt > fireRate(Game)) =>
               /\ ev'.fired >= 1
               /\ autoFireTimer' = 0 ]_vars
    /\ [][ ev'.op \in {"fire", "touchstart"} => autoFireTimer' = autoFireTimer ]_vars

\* C22: a frame played spawns clots exactly when the spawn timer, with the
\* frame's time added, has reached 2500 ms / difficultyMultiplier, and then
\* resets the timer to zero; otherwise the timer keeps the time added.  A
\* frame that spawns creates exactly 1 clot at a difficulty level below 3,
\* 1 or 2 clots at levels 3 and 4, and 1 to 3 clots from level 5 on; the new
\* clots are the last of the live clots.
C22_Spawn ==
    [][ (ev'.op = "update" /\ state = PLAYING) =>
          LET timer == spawnTimer + ev'.dt
              due   == timer * difficultyMultiplier' >= 2500 * 10
          IN  /\ ev'.spawned > 0 <=> due
              /\ due => spawnTimer' = 0
              /\ ~due => spawnTimer' = timer
              /\ due =>
                   /\ difficultyLevel' < 3 => ev'.spawned = 1
                   /\ difficultyLevel' \in {3, 4} => ev'.spawned \in {1, 2}
                   /\ difficultyLevel' >= 5 => ev'.spawned \in {1, 2, 3}
              /\ Len(clots') = Len(clots) + ev'.spawned
                               - Cardinality(DestroyedClots') - Len(ev'.escapes) ]_vars

\* A frame at difficulty level 5 has just spawned three clots: both draws
\* for an extra clot succeeded.
C22_Witness ==
    /\ ev.op = "update"
    /\ difficultyLevel = 5
    /\ ev.spawned = 3
    /\ spawnTimer = 0
    /\ Len(clots) >= 3

\* C23: across a frame played (of at most 32 ms) the difficulty level and the
\* multiplier do not decrease and the level rises by at most one; the frame
\* triggers the shake of the difficulty update (intensity 5) exactly when
\* the level rises, and then once.
C23_DifficultyMonotonic ==
    [][ (ev'.op = "update" /\ state = PLAYING /\ ev'.dt <= 32) =>
          LET shaken == { i \in DOMAIN ev'.shakes : ev'.shakes[i] = 5 }
          IN  /\ difficultyLevel' >= difficultyLevel
              /\ difficultyLevel' <= difficultyLevel + 1
              /\ difficultyMultiplier' >= difficultyMultiplier
              /\ shaken # {} <=> difficultyLevel' > difficultyLevel
              /\ Cardinality(shaken) <= 1 ]_vars

\* A frame has just raised the level to 8, where the multiplier reaches its
\* cap: the first shake of the frame is that of the difficulty update.
C23_Witness ==
    /\ ev.op = "update"
    /\ state = PLAYING
    /\ ev.levelUp
    /\ difficultyLevel = 8
    /\ difficultyTimer < 8 * DifficultyPeriod + 32
    /\ ev.shakes # << >>
    /\ ev.shakes[1] = 5

\* C24: CRSCalculator.update(clots, dt), as a frame played calls it on the
\* clots the escape culling left, sets the CRS value to the value before the
\* call plus the sum over the clots of scale^2 * (dt / 1000) * 2, clamped to
\* 100, leaves the clots as they are, and never lowers the value.
C24_CrsUpdateRaises ==
    [][ (ev'.op = "update" /\ state = PLAYING) =>
          LET before == ev'.crsAfterEscapes
              after  == ev'.crsAtCheck
          IN  /\ after = Min(100 * CrsOne, before + crsIncrease(clots', ev'.dt))
              /\ \A i \in DOMAIN clots' : ~escaped(clots'[i], canvas')
              /\ after >= before ]_vars

C26_PowerUpCollection ==
    [][ (ev'.op = "update" /\ state = PLAYING) =>
          LET dropped(h) == h.dropped
              drops      == SelectSeq(ev'.hits, dropped)
              all        == [ i \in DOMAIN powerUps |->
                                << powerUps[i].x, powerUps[i].y + 150 >> ]
                            \o [ i \in DOMAIN drops |->
                                   << drops[i].x, drops[i].y + 150 >> ]
              inBound(q) == q[2] < 1000 * PosUnit
              near(q)    == circleCollision(player'.x, player'.y, 30, q[1], q[2], 18)
              out(q)     == ~inBound(q)
              taken(q)   == inBound(q) /\ near(q)
              kept(q)    == inBound(q) /\ ~near(q)
          IN  /\ [ i \in DOMAIN powerUps' |-> << powerUps'[i].x, powerUps'[i].y >> ]
                     = SelectSeq(all, kept)
              /\ Len(ev'.collected) = Len(SelectSeq(all, taken))
              /\ ev'.culled = Len(SelectSeq(all, out))
              /\ score' = ev'.scoreAfterScan + 100 * Len(ev'.collected)
              /\ (\E i \in DOMAIN ev'.collected : ev'.collected[i] = "MULTI_SHOT")
                     => activePowerUps'.multiShot = 6000 - ev'.dt
              /\ \A i \in DOMAIN powerUps' : powerUps'[i].y < 1000 * PosUnit ]_vars

\* A frame has just removed a power-up that fell out of bounds, uncollected:
\* the player had moved away from under it.
C26_Witness ==
    /\ ev.op = "update"
    /\ state = PLAYING
    /\ ev.culled = 1
    /\ ev.collected = << >>
    /\ powerUps = << >>
    /\ player.targetX # (canvas.width * PosUnit) \div 2

\* C27: in every reachable state maxCombo >= combo; only startGame lowers
\* maxCombo (to 0, with the combo); a frame leaves it at the largest of its
\* value before and the combos after the frame's hits, and no other
\* operation changes it: it is the largest value the combo has taken since
\* the session started.
C27_MaxCombo ==
    /\ [](maxCombo >= combo /\ combo >= 0)
    /\ [][ ev'.op = "startGame" => (maxCombo' = 0 /\ combo' = 0) ]_vars
    /\ [][ ev'.op = "update" =>
             LET seen == { maxCombo } \cup { ev'.hits[i].combo : i \in DOMAIN ev'.hits }
             IN  /\ maxCombo' \in seen
                 /\ \A c \in seen : maxCombo' >= c
                 /\ maxCombo' >= maxCombo ]_vars
    /\ [][ ev'.op \notin {"startGame", "update"} =>
             (maxCombo' = maxCombo /\ combo' = combo) ]_vars

\* A frame has just scored the first hit after the combo had expired: the
\* combo is 1, below the maximum of the session.
C27_Witness ==
    /\ ev.op = "update"
    /\ Len(Hits) = 1
    /\ Hits[1].combo = 1
    /\ combo = 1
    /\ maxCombo > 1

\* C28: a frame while the state is not Playing changes nothing of the
\* simulation: the state, the level, the score, the CRS value, the pulses,
\* the clots, the power-ups, the player, the combo and its maximum, the
\* difficulty, and the spawn, combo, auto-fire and power-up timers are as
\* they were; the frame fires, spawns, hits and shakes nothing.
C28_IdleFrameChangesNothing ==
    [][ (ev'.op = "update" /\ state # PLAYING) =>
          /\ UNCHANGED << state, level, score, crsValue, pulses, clots, powerUps,
                          player, canvas, combo, comboTimer, maxCombo, wasCritical,
                          difficultyTimer, difficultyLevel, difficultyMultiplier,
                          spawnTimer, autoFireTimer, activePowerUps >>
          /\ ev'.fired = 0 /\ ev'.spawned = 0
          /\ ev'.hits = << >> /\ ev'.escapes = << >> /\ ev'.shakes = << >>
          /\ ev'.collected = << >> /\ ~ev'.gameOver ]_vars

\* A frame after the game was over, with clots alive and the CRS value at
\* 100: an update of these would have changed them.
C28_Witness ==
    /\ ev.op = "update"
    /\ state = GAME_OVER
    /\ ~ev.gameOver
    /\ clots # << >>
    /\ crsValue = 100 * CrsOne

\* C29: the frame whose failed check ends the game leaves the score at the
\* score it notified of, the CRS value at the value the check found (100),
\* and the active power-up timers as they were at the check; while the
\* state is GameOver the CRS value is >= 100, and nothing but startGame and
\* nextLevel changes the score, the CRS value or the timers.
C29_GameOverFreezes ==
    /\ [][ (ev'.op = "update" /\ ev'.gameOver) =>
             /\ score' = ev'.shownScore
             /\ crsValue' = ev'.crsAtCheck
             /\ activePowerUps' = activePowerUps ]_vars
    /\ [](state = GAME_OVER => crsValue >= 100 * CrsOne)
    /\ [][ (state = GAME_OVER /\ ev'.op \notin {"startGame", "nextLevel"}) =>
             UNCHANGED << score, crsValue, activePowerUps >> ]_vars

\* C30: a frame removes from the live clots exactly the clots its scan
\* destroyed and the clots that escaped, each once: the clots it leaves are
\* those before it and those it spawned, less the ones and the others; no
\* clot it destroyed was past the bottom, so none incurs the escape penalty
\* as well; the clots it leaves are neither destroyed nor escaped; and
\* between frames the clots only change when startGame or nextLevel empties
\* them.
C30_OneExitPerClot ==
    /\ [][ ev'.op = "update" =>
             /\ Len(clots') = Len(clots) + ev'.spawned
                              - Cardinality(DestroyedClots') - Len(ev'.escapes)
             /\ \A i \in DOMAIN ev'.hits :
                    ev'.hits[i].destroyed =>
                        ev'.hits[i].y <= (canvas.height + ev'.hits[i].radius) * PosUnit
             /\ ev'.crsAfterEscapes = ev'.crsAfterScan + PenaltySum(ev'.escapes)
             /\ \A i \in DOMAIN clots' :
                    /\ clots'[i].radius > clots'[i].minRadius
                    /\ clots'[i].y <= (canvas.height + clots'[i].radius) * PosUnit ]_vars
    /\ [][ ev'.op # "update" =>
             \/ clots' = clots
             \/ (ev'.op \in {"startGame", "nextLevel"} /\ clots' = << >>) ]_vars

\* A frame in which one clot escaped and another was hit, in a session that
\* has destroyed clots: the escape penalty is that of the one clot.
C30_Witness ==
    /\ ev.op = "update"
    /\ Len(ev.escapes) = 1
    /\ Len(Hits) > 0
    /\ score >= HitScore + DestroyScore
    /\ ev.crsAfterEscapes > ev.crsAfterScan

\* C31: in every reachable state at most 22 pulses are live.  A fire, manual
\* or automatic, adds pulses only while fewer than 20 are live: one, or
\* three while multi-shot is active; so the pulses go beyond 20 only by a
\* fire under multi-shot, and no other operation adds any.
C31_PulsesBounded ==
    /\ [](Len(pulses) <= 22)
    /\ [][ Len(pulses') > Len(pulses) =>
             /\ ev'.op \in {"update", "fire", "touchstart"}
             /\ Len(pulses) < 20
             /\ Len(pulses') <= Len(pulses) + (IF activePowerUps.multiShot > 0 THEN 3 ELSE 1)
             /\ ev'.op = "update" => ev'.fired = (IF activePowerUps.multiShot > 0 THEN 3 ELSE 1) ]_vars
    /\ [][ (Len(pulses') > 20 /\ Len(pulses) <= 20) => activePowerUps.multiShot > 0 ]_vars
    /\ [][ (ev'.op = "update" /\ Len(pulses) >= 20) => ev'.fired = 0 ]_vars

\* A click under multi-shot with 19 pulses live has just made them 22.
C31_Witness ==
    /\ ev.op = "fire"
    /\ state = PLAYING
    /\ Len(pulses) = 22
    /\ activePowerUps.multiShot > 0

\* C32: while frames of positive time keep coming, a session that is played
\* and has had no hit leads to GameOver, or to a hit.
C32_EventuallyGameOver ==
    (state = PLAYING /\ sinceHit < 0) ~> (state = GAME_OVER \/ sinceHit >= 0)

\* A frame has just ended a session in which no pulse ever hit a clot.
C32_Witness ==
    /\ ev.op = "update"
    /\ ev.gameOver
    /\ state = GAME_OVER
    /\ sinceHit < 0
    /\ score = 0
    /\ crsValue = 100 * CrsOne

\* C33: at the end of every frame played that leaves the session Playing the
\* latch agrees with the CRS value (wasCritical is true exactly when
\* CRS >= 70), and a frame at whose end CRS is >= 70, after a frame at whose
\* end it was below, raises the critical feedback.
C33_LatchAgrees ==
    /\ [][ (ev'.op = "update" /\ state' = PLAYING) =>
              (wasCritical' <=> crsValue' >= 70 * CrsOne) ]_vars
    /\ [][ ( /\ ev.op = "update" /\ ev'.op = "update"
             /\ state = PLAYING /\ state' = PLAYING
             /\ crsValue < 70 * CrsOne /\ crsValue' >= 70 * CrsOne ) =>
              ev'.critical ]_vars

=============================================================================
